---------------------------- MODULE Spec2Model ----------------------------
(***************************************************************************)
(* A model of the statistical engine of blscint: the autocorrelation       *)
(* estimator, the ACF fitter and the diagnostic record of diag_stats.py,   *)
(* the Markov bivariate-PDF synthesizer of gen_pdf.py, the spectral        *)
(* synthesizer of simulations/timeseries/fft.py and the SignalGenerator of *)
(* simulations/timeseries/dataset_generator.py.                            *)
(*                                                                         *)
(* Floating-point values are modelled as extended rationals <<n, d>>:      *)
(* d > 0 is the reduced fraction n/d, and d = 0 holds the three IEEE       *)
(* specials, <<0,0>> NaN, <<1,0>> +Inf and <<-1,0>> -Inf.  Arithmetic on   *)
(* them follows IEEE 754 for the specials and for division by zero, and is *)
(* exact otherwise; the square root is rounded to a fixed precision.       *)
(***************************************************************************)
EXTENDS Integers, Sequences, FiniteSets, TLC

VARIABLES
    ts,         \* diag_stats: the series handed to the functions
    call,       \* diag_stats: the last call made, with its arguments and outcome
    np_random,  \* the state of numpy's process-global generator np.random
    pdf,        \* gen_pdf: the frame of the running get_ts_pdf call
    pdf_ret,    \* gen_pdf: the calls that returned, each with its arguments
    other_draws,\* the draws other code of the process made from np.random
    gen,        \* fft: the state of a Generator object the caller holds
    fft_ret,    \* fft: the get_ts_fft calls made, with arguments, seed and result
    sg,         \* dataset: the SignalGenerator object (rng, frame_metadata, df)
    md,         \* dataset: the frame of the make_dataset call
    files,      \* dataset: the files make_dataset has written
    twin        \* dataset: a second SignalGenerator driven by the same calls

statsVars == <<ts, call>>

pdfVars == <<np_random, pdf, pdf_ret, other_draws>>

fftVars == <<gen, fft_ret>>

dsVars == <<sg, md, files, twin>>

vars ==
    <<ts, call, np_random, pdf, pdf_ret, other_draws, gen, fft_ret, sg, md, files, twin>>

-----------------------------------------------------------------------------
(* Bounds of the model *)

MaxLen == 3         \* longest input series
MaxVal == 2         \* input samples are the integers 0..MaxVal
RngMod == 16        \* number of states of a modelled random generator
MaxSteps == 3       \* largest gain grid (steps)
MaxSamples == 3     \* longest synthesized series (num_samples)
MaxOtherDraws == 1  \* draws other code makes from np.random between two calls
MaxSeed == 2        \* integer seeds are 0..MaxSeed
MaxTrials == 2      \* largest number of trials (n) of a make_dataset call
MaxTasks == 3       \* task tuples the memory of the process holds
MaxCalls == 2       \* make_dataset calls on one SignalGenerator

-----------------------------------------------------------------------------
(* Extended rationals: the model of a float64 *)

Abs(i) == IF i < 0 THEN -i ELSE i

\* the element of a one-element set: {e(x) : x \in {v}} binds x to the value v
Only(S) == CHOOSE v \in S : TRUE

Sign(i) == IF i < 0 THEN -1 ELSE IF i > 0 THEN 1 ELSE 0

\* (the remainder is bound to its value before the recursive call)
RECURSIVE GCD(_, _)
GCD(a, b) == IF b = 0 THEN a ELSE Only({GCD(b, m) : m \in {a % b}})

NaN == <<0, 0>>
PInf == <<1, 0>>
NInf == <<-1, 0>>

\* the fraction n/d, d # 0, in lowest terms with a positive denominator
Frac(n, d) ==
    LET g == GCD(Abs(n), Abs(d))
        s == IF d < 0 THEN -1 ELSE 1
    IN  <<(s * n) \div g, (s * d) \div g>>

Num(i) == <<i, 1>>
Zero == <<0, 1>>
One == <<1, 1>>

IsNaN(x) == x = NaN
IsInf(x) == x = PInf \/ x = NInf
IsFinite(x) == x[2] # 0
SignOf(x) == Sign(x[1])

Neg(x) == <<-x[1], x[2]>>

FAdd(x, y) ==
    IF IsNaN(x) \/ IsNaN(y) THEN NaN
    ELSE IF IsInf(x) /\ IsInf(y) THEN (IF x = y THEN x ELSE NaN)
    ELSE IF IsInf(x) THEN x
    ELSE IF IsInf(y) THEN y
    ELSE LET g == GCD(x[2], y[2])
             l == (x[2] \div g) * y[2]
         IN  Frac(x[1] * (l \div x[2]) + y[1] * (l \div y[2]), l)

FSub(x, y) == FAdd(x, Neg(y))

FMul(x, y) ==
    IF IsNaN(x) \/ IsNaN(y) THEN NaN
    ELSE IF IsInf(x) \/ IsInf(y)
         THEN (IF SignOf(x) * SignOf(y) = 0 THEN NaN
               ELSE <<SignOf(x) * SignOf(y), 0>>)
    ELSE LET g1 == GCD(Abs(x[1]), y[2])
             g2 == GCD(Abs(y[1]), x[2])
         IN  Frac((x[1] \div g1) * (y[1] \div g2), (x[2] \div g2) * (y[2] \div g1))

\* IEEE division: x/0 is +-Inf for x # 0 and NaN for x = 0; Inf/Inf is NaN
FDiv(x, y) ==
    IF IsNaN(x) \/ IsNaN(y) THEN NaN
    ELSE IF IsInf(y) THEN (IF IsInf(x) THEN NaN ELSE Zero)
    ELSE IF y[1] = 0 THEN (IF SignOf(x) = 0 THEN NaN ELSE <<SignOf(x), 0>>)
    ELSE IF IsInf(x) THEN <<SignOf(x) * SignOf(y), 0>>
    ELSE FMul(x, Frac(y[2], y[1]))

\* x < y and x <= y on floats: every comparison with NaN is false
FLess(x, y) ==
    /\ ~IsNaN(x) /\ ~IsNaN(y) /\ x # y
    /\ IF IsInf(x) THEN x = NInf
       ELSE IF IsInf(y) THEN y = PInf
       ELSE x[1] * y[2] < y[1] * x[2]

FLeq(x, y) == ~IsNaN(x) /\ ~IsNaN(y) /\ (x = y \/ FLess(x, y))

FAbs(x) == <<Abs(x[1]), x[2]>>

RECURSIVE SumSeq(_)
SumSeq(s) == IF s = <<>> THEN Zero ELSE FAdd(Head(s), SumSeq(Tail(s)))

\* x ** n for a natural n
RECURSIVE FPow(_, _)
FPow(x, n) == IF n = 0 THEN One ELSE FMul(x, FPow(x, n - 1))

\* np.mean
Mean(s) == FDiv(SumSeq(s), Num(Len(s)))

-----------------------------------------------------------------------------
(* diag_stats.autocorr *)

\* ts - np.mean(ts)
Centered(s) == LET m == Mean(s) IN [i \in 1..Len(s) |-> FSub(s[i], m)]

\* np.correlate(ts, ts, 'full')[-len(ts):], lag k-1 at index k
RawAcf(s) ==
    LET c == Centered(s)
        n == Len(s)
    IN  [k \in 1..n |-> SumSeq([j \in 1..(n - k + 1) |-> FMul(c[j + k - 1], c[j])])]

\* acf /= acf[0]: the in-place elementwise division by the first element
Normalize(a) == [k \in 1..Len(a) |-> FDiv(a[k], a[1])]

\* the array as it stands right before the normalization
PreNormAcf(s, remove_spike) ==
    LET raw == RawAcf(s)
    IN  IF remove_spike THEN [raw EXCEPT ![1] = raw[2]] ELSE raw

\* a mutated autocorr: normalizes first and removes the spike afterwards
autocorr_normalize_first(s, remove_spike) ==
    IF remove_spike /\ Len(s) < 2
    THEN [outcome |-> "raise", exc |-> "IndexError"]
    ELSE LET n == Normalize(RawAcf(s))
         IN  [outcome |-> "return",
              value |-> IF remove_spike THEN [n EXCEPT ![1] = n[2]] ELSE n]

\* autocorr(ts, remove_spike): acf[1] of a one-sample series is an IndexError
autocorr(s, remove_spike) ==
    IF remove_spike /\ Len(s) < 2
    THEN [outcome |-> "raise", exc |-> "IndexError"]
    ELSE [outcome |-> "return", value |-> Normalize(PreNormAcf(s, remove_spike))]

-----------------------------------------------------------------------------
(* Rounded square root *)

SqrtPrec == 10      \* np.sqrt is rounded to multiples of 1/SqrtPrec

\* the largest k in lo..hi with k*k <= m
RECURSIVE IsqrtIn(_, _, _)
IsqrtIn(m, lo, hi) ==
    IF lo = hi THEN lo
    ELSE Only({IF mid * mid <= m THEN IsqrtIn(m, mid, hi) ELSE IsqrtIn(m, lo, mid - 1) :
                mid \in {(lo + hi + 1) \div 2}})

\* (46340 is the largest integer whose square the checker's integers hold)
Isqrt(m) == IsqrtIn(m, 0, IF m < 46340 THEN m ELSE 46340)

\* np.sqrt: NaN for a negative argument, exact where the root is a multiple
\* of 1/SqrtPrec, rounded down to one otherwise (to an integer for a large
\* argument)
FSqrt(x) ==
    IF IsNaN(x) \/ SignOf(x) < 0 THEN NaN
    ELSE IF IsInf(x) THEN PInf
    ELSE IF x[1] \div x[2] >= SqrtPrec * SqrtPrec THEN Num(Isqrt(x[1] \div x[2]))
    ELSE Frac(Isqrt((x[1] * SqrtPrec * SqrtPrec) \div x[2]), SqrtPrec)

-----------------------------------------------------------------------------
(* scipy.optimize.curve_fit, as fit_acf uses it *)

None == <<>>

IsFiniteSeq(s) == \A i \in 1..Len(s) : IsFinite(s[i])

FClip(x, lo, hi) == IF FLess(x, lo) THEN lo ELSE IF FLess(hi, x) THEN hi ELSE x

\* What the optimizer does on a problem is not computed here: `oracle` says
\* whether it converges and which parameters it lands on.  curve_fit checks
\* ydata for NaN/Inf first (check_finite) and raises ValueError; a failure to
\* converge is RuntimeError("Optimal parameters not found"); a result lies
\* within the bounds.
curve_fit(xdata, ydata, lo, hi, oracle) ==
    IF ~IsFiniteSeq(ydata) THEN [outcome |-> "raise", exc |-> "ValueError"]
    ELSE IF ~oracle.converged THEN [outcome |-> "raise", exc |-> "RuntimeError"]
    ELSE [outcome |-> "return",
          value |-> [i \in 1..Len(lo) |-> FClip(oracle.popt[i], lo[i], hi[i])]]

\* np.arange(a, b) as floats
Arange(a, b) == [i \in 1..(b - a) |-> Num(a + i - 1)]

-----------------------------------------------------------------------------
(* diag_stats.fit_acf *)

\* a mutated fit_acf: the spike-removed mode keeps lag 0 in the fit
FitArgs_keep_lag0(acf, remove_spike) ==
    IF remove_spike
    THEN [xdata |-> Arange(0, Len(acf)),
          ydata |-> acf,
          lo |-> <<Zero>>,
          hi |-> <<Num(Len(acf))>>,
          A |-> One, W |-> Zero]
    ELSE [xdata |-> Arange(0, Len(acf)),
          ydata |-> acf,
          lo |-> <<Zero, Zero, Zero>>,
          hi |-> <<Num(Len(acf)), One, One>>,
          A |-> None, W |-> None]

\* the arguments fit_acf hands to curve_fit
FitArgs(acf, remove_spike) ==
    IF remove_spike
    THEN [xdata |-> Arange(1, Len(acf)),
          ydata |-> Tail(acf),
          lo |-> <<Zero>>,
          hi |-> <<Num(Len(acf))>>,
          A |-> One, W |-> Zero]
    ELSE [xdata |-> Arange(0, Len(acf)),
          ydata |-> acf,
          lo |-> <<Zero, Zero, Zero>>,
          hi |-> <<Num(Len(acf)), One, One>>,
          A |-> None, W |-> None]

\* a mutated fit_acf: swallows the optimizer's failure and returns NaNs
fit_acf_nan_on_failure(acf, remove_spike, oracle) ==
    LET a == FitArgs(acf, remove_spike)
        r == curve_fit(a.xdata, a.ydata, a.lo, a.hi, oracle)
    IN  IF r.outcome = "raise"
        THEN (IF r.exc = "RuntimeError"
              THEN [outcome |-> "return", value |-> <<NaN, NaN, NaN>>]
              ELSE r)
        ELSE IF remove_spike
             THEN [outcome |-> "return", value |-> <<r.value[1], One, Zero>>]
             ELSE r

\* fit_acf has no try/except: what curve_fit raises leaves fit_acf
fit_acf(acf, remove_spike, oracle) ==
    LET a == FitArgs(acf, remove_spike)
        r == curve_fit(a.xdata, a.ydata, a.lo, a.hi, oracle)
    IN  IF r.outcome = "raise" THEN r
        ELSE IF remove_spike
             THEN [outcome |-> "return", value |-> <<r.value[1], One, Zero>>]
             ELSE r

-----------------------------------------------------------------------------
(* diag_stats.get_diag_stats and diag_stats.empty_diag_stats *)

\* np.std: the square root of the mean squared deviation
np_std(s) ==
    LET c == Centered(s)
    IN  FSqrt(Mean([i \in 1..Len(s) |-> FMul(c[i], c[i])]))

RECURSIVE np_min(_)
np_min(s) ==
    IF Len(s) = 1 THEN s[1]
    ELSE LET m == np_min(Tail(s)) IN IF FLess(s[1], m) THEN s[1] ELSE m

\* scipy.stats.kstest(ts, 'expon').statistic and
\* scipy.stats.anderson(ts, 'expon').statistic: functions of the series alone,
\* kept as terms
kstest_expon(s) == <<"kstest", "expon", s>>
anderson_expon(s) == <<"anderson", "expon", s>>

\* The series a function is handed is a numpy array or a setigen TimeSeries,
\* which carries the array and a sampling interval of its own.
NdArray(s) == [kind |-> "ndarray", array |-> s, dt |-> None]

TimeSeries(s, dt) == [kind |-> "TimeSeries", array |-> s, dt |-> dt]

\* lines 39-41: the dt of a TimeSeries replaces the argument
EffectiveDt(x, dt) == IF x.kind = "TimeSeries" THEN x.dt ELSE dt

\* a mutated record: every fitted parameter is scaled by dt
DiagRecord_scale_all(s, ac, popt, dt) ==
    [std |-> np_std(s),
     min |-> np_min(s),
     ks |-> kstest_expon(s),
     anderson |-> anderson_expon(s),
     lag1 |-> ac[2],
     lag2 |-> ac[3],
     fit_t_d |-> IF dt # None THEN FMul(popt[1], dt) ELSE popt[1],
     fit_A |-> IF dt # None THEN FMul(popt[2], dt) ELSE popt[2],
     fit_W |-> IF dt # None THEN FMul(popt[3], dt) ELSE popt[3]]

\* the record once the fit is over, lines 64-71
DiagRecord(s, ac, popt, dt) ==
    [std |-> np_std(s),
     min |-> np_min(s),
     ks |-> kstest_expon(s),
     anderson |-> anderson_expon(s),
     lag1 |-> ac[2],
     lag2 |-> ac[3],
     fit_t_d |-> IF dt # None THEN FMul(popt[1], dt) ELSE popt[1],
     fit_A |-> popt[2],
     fit_W |-> popt[3]]

\* a mutated get_diag_stats: no except clause around the fit
get_diag_stats_no_except(x, dt, oracle) ==
    LET s == x.array
        ac == autocorr(s, FALSE).value
    IN  IF Len(s) < 3 THEN [outcome |-> "raise", exc |-> "IndexError"]
        ELSE LET f == fit_acf(ac, FALSE, oracle)
             IN  IF f.outcome = "raise" THEN f
                 ELSE [outcome |-> "return",
                       value |-> DiagRecord(s, ac, f.value, EffectiveDt(x, dt))]

\* get_diag_stats(ts, dt) on a series x: ac[1] / ac[2] of a series shorter
\* than 3 is an IndexError; only RuntimeError is caught around the fit
get_diag_stats(x, dt, oracle) ==
    LET s == x.array
        ac == autocorr(s, FALSE).value
    IN  IF Len(s) < 3 THEN [outcome |-> "raise", exc |-> "IndexError"]
        ELSE LET f == fit_acf(ac, FALSE, oracle)
             IN  IF f.outcome = "raise" /\ f.exc # "RuntimeError" THEN f
                 ELSE LET popt == IF f.outcome = "raise"
                                  THEN <<NaN, NaN, NaN>>
                                  ELSE f.value
                      IN  [outcome |-> "return",
                           value |-> DiagRecord(s, ac, popt, EffectiveDt(x, dt))]

empty_diag_stats(fchans) ==
    [outcome |-> "return",
     value |-> [std |-> None, min |-> None, ks |-> None, anderson |-> None,
                lag1 |-> None, lag2 |-> None, fchans |-> fchans,
                l |-> None, r |-> None,
                fit_t_d |-> None, fit_A |-> None, fit_W |-> None]]

-----------------------------------------------------------------------------
(* diag_stats.triangle *)

\* a mutated triangle: the taper without the window np.where applies
triangle_no_window(x, L) == FSub(One, FDiv(FAbs(x), L))

\* y = 1 - |x|/L where |x| <= L, and 0 elsewhere
triangle(x, L) ==
    IF FLeq(FAbs(x), L) THEN FSub(One, FDiv(FAbs(x), L)) ELSE Zero

-----------------------------------------------------------------------------
(* Random generators *)

\* A generator is a state in 0..RngMod-1.  A draw advances the state and
\* returns a value computed from the new state.
RngStates == 0..(RngMod - 1)

RngAdvance(s) == (5 * s + 3) % RngMod

\* the uniform variate in [0, 1) behind every draw
RngUniform(s) == Frac(s, RngMod)

\* np.random.exponential(): a non-negative float, unbounded above, increasing
\* in the uniform variate u (the inverse CDF -log(1-u), taken as u/(1-u))
RngExponential(s) == FDiv(RngUniform(s), FSub(One, RngUniform(s)))

-----------------------------------------------------------------------------
(* gen_pdf.find_nearest, gen_pdf.bpdf *)

\* a mutated grid: np.linspace with the endpoint kept
possible_g_endpoint(max_g, steps) ==
    [k \in 0..(steps - 1) |->
        IF steps = 1 THEN Zero ELSE FDiv(FMul(max_g, Num(k)), Num(steps - 1))]

\* np.linspace(0, max_g, steps, endpoint=False), index k in 0..steps-1
possible_g(max_g, steps) == [k \in 0..(steps - 1) |-> FDiv(FMul(max_g, Num(k)), Num(steps))]

\* argmin: the first index holding the least value (NaN, if any, wins)
ArgMin(a) ==
    IF \E k \in DOMAIN a : IsNaN(a[k])
    THEN CHOOSE k \in DOMAIN a : IsNaN(a[k]) /\ \A j \in DOMAIN a : IsNaN(a[j]) => k <= j
    ELSE CHOOSE k \in DOMAIN a :
            \A j \in DOMAIN a : FLess(a[k], a[j]) \/ (a[k] = a[j] /\ k <= j)

find_nearest(arr, val) == ArgMin([k \in DOMAIN arr |-> FAbs(FSub(arr[k], val))])

\* float64 limits of exp and of the Bessel function: exp(x) is 0 below
\* -ExpUnderflow and +Inf above ExpOverflow, i0(z) is +Inf above I0Overflow
ExpUnderflow == 745
ExpOverflow == 709
I0Overflow == 713

\* np.exp.  Where the result is a positive finite float its magnitude is not
\* computed: the model takes 1 (exact at 0).
FExp(x) ==
    IF IsNaN(x) THEN NaN
    ELSE IF x = PInf \/ FLess(Num(ExpOverflow), x) THEN PInf
    ELSE IF x = NInf \/ FLess(x, Num(-ExpUnderflow)) THEN Zero
    ELSE One

\* scipy.special.i0, with the same convention (i0(0) = 1 exactly)
FI0(z) ==
    IF IsNaN(z) THEN NaN
    ELSE IF IsInf(z) \/ FLess(Num(I0Overflow), FAbs(z)) THEN PInf
    ELSE One

Pi == Frac(22, 7)

\* 2*np.sqrt(g1*g2*ac)
TwoRoot(g1, g2, ac) == FMul(Num(2), FSqrt(FMul(FMul(g1, g2), ac)))

\* line 38, per element
i_factor(g1, g2, ac) == FI0(FDiv(TwoRoot(g1, g2, ac), FSub(One, ac)))

\* line 44, per element
bpdf_primary(g1, g2, ac) ==
    FMul(FMul(FDiv(One, FSub(One, ac)),
              FExp(FDiv(Neg(FAdd(g1, g2)), FSub(One, ac)))),
         i_factor(g1, g2, ac))

\* line 42, per element
bpdf_asymptotic(g1, g2, ac) ==
    FMul(FMul(FDiv(One, FSub(One, ac)),
              FExp(FDiv(FAdd(Neg(FAdd(g1, g2)), TwoRoot(g1, g2, ac)), FSub(One, ac)))),
         FSqrt(FDiv(FMul(FMul(Num(4), Pi), FSqrt(FMul(FMul(g1, g2), ac))),
                    FSub(One, ac))))

\* line 40: the branch is chosen by np.any(np.isinf(i_factor))
bpdf_branch(g1, g2, ac) ==
    IF \E k \in DOMAIN g2 : IsInf(i_factor(g1, g2[k], ac))
    THEN "asymptotic"
    ELSE "primary"

\* bpdf(g1, g2, ac) with g2 an array: one branch for the whole array, taken
\* when np.isinf finds an infinite Bessel term
bpdf(g1, g2, ac) ==
    IF bpdf_branch(g1, g2, ac) = "asymptotic"
    THEN [k \in DOMAIN g2 |-> bpdf_asymptotic(g1, g2[k], ac)]
    ELSE [k \in DOMAIN g2 |-> bpdf_primary(g1, g2[k], ac)]

-----------------------------------------------------------------------------
(* np.random.choice(np.arange(steps), p=p) *)

SumFun(a, n) == SumSeq([i \in 1..n |-> a[i - 1]])

\* raw_p / np.sum(raw_p)
NormalizeMass(raw_p, steps) ==
    Only({[k \in 0..(steps - 1) |-> FDiv(raw_p[k], total)] : total \in {SumFun(raw_p, steps)}})

\* choice validates p, then inverts the cumulative sum at a uniform variate:
\* cdf.searchsorted(u, side='right') is the number of entries cdf[k] <= u
choice(p, steps, u) ==
    IF \E k \in 0..(steps - 1) : IsNaN(p[k])
    THEN [outcome |-> "raise", exc |-> "ValueError"]
    ELSE IF \E k \in 0..(steps - 1) : FLess(p[k], Zero)
    THEN [outcome |-> "raise", exc |-> "ValueError"]
    ELSE IF SumFun(p, steps) # One
    THEN [outcome |-> "raise", exc |-> "ValueError"]
    ELSE [outcome |-> "return",
          value |-> Cardinality({k \in 0..(steps - 1) : FLeq(SumFun(p, k + 1), u)})]

-----------------------------------------------------------------------------
(* gen_pdf.get_ts_pdf, step by step *)

\* ac_arr[1], the lag-1 correlation gaussian(1, 0, t_d/dt/hwem_m), stands for
\* the arguments t_d and dt: 0 (underflow, t_d << dt), two values inside
\* (0, 1), and 1 (t_d/dt beyond 1e8, where float64 rounds the Gaussian to 1)
AcValues == {Zero, Frac(1, 2), Frac(999, 1000), One}

MaxGValues == {One, Num(5)}

PdfArgs ==
    [ac : AcValues, max_g : MaxGValues, steps : 1..MaxSteps, num_samples : 1..MaxSamples]

PdfIdle == [pc |-> "idle"]

PdfInit ==
    /\ np_random \in RngStates
    /\ pdf = PdfIdle
    /\ pdf_ret = <<>>
    /\ other_draws = 0

\* the call; a second call repeats the arguments of the first
PdfCall ==
    \E a \in PdfArgs :
        /\ pdf.pc = "idle"
        /\ Len(pdf_ret) < 2
        /\ pdf_ret # <<>> => a = pdf_ret[1].args
        /\ pdf' = [pc |-> "init", args |-> a,
                   ts_idx |-> [i \in 0..(a.num_samples - 1) |-> 0]]
        /\ UNCHANGED <<np_random, pdf_ret, other_draws>>

\* lines 63-66: one turn of the rejection loop
PdfDrawFirst ==
    /\ pdf.pc = "init"
    /\ LET s == RngAdvance(np_random)
           init_g == RngExponential(s)
           grid == possible_g(pdf.args.max_g, pdf.args.steps)
       IN  /\ np_random' = s
           /\ IF FLess(pdf.args.max_g, init_g)
              THEN pdf' = pdf
              ELSE pdf' = [pc |-> "loop", args |-> pdf.args, i |-> 1,
                           ts_idx |-> [pdf.ts_idx EXCEPT ![0] = find_nearest(grid, init_g)],
                           p |-> None, raw_p |-> None, branch |-> None]
    /\ UNCHANGED <<pdf_ret, other_draws>>

\* lines 51-53: the Gaussian correlation table over the lags 0..steps-1,
\* ac_arr[k] = exp(-k^2 / (2 sigma^2)) = ac_arr[1]^(k^2)
ac_arr(a) == [k \in 0..(a.steps - 1) |-> FPow(a.ac, k * k)]

\* a mutated step: the density is conditioned on the first sample of the
\* series instead of the previous one
StepRawP_first_sample(f) ==
    LET grid == possible_g(f.args.max_g, f.args.steps)
    IN  bpdf(grid[f.ts_idx[0]], grid, ac_arr(f.args)[1])

\* line 77: raw_p = bpdf(possible_g[ts_idx[i-1]], possible_g, ac_arr[1])
StepRawP(f) ==
    LET grid == possible_g(f.args.max_g, f.args.steps)
    IN  bpdf(grid[f.ts_idx[f.i - 1]], grid, ac_arr(f.args)[1])

\* the mass vector of step i, lines 77-79
StepMass(f) == NormalizeMass(StepRawP(f), f.args.steps)

\* the branch bpdf took at step i
StepBranch(f) ==
    LET grid == possible_g(f.args.max_g, f.args.steps)
    IN  bpdf_branch(grid[f.ts_idx[f.i - 1]], grid, ac_arr(f.args)[1])

\* lines 69-85: one turn of the sampling loop.  ac_arr[1] of a one-point
\* table is an IndexError, raised outside the try.  Whatever choice raises is
\* caught by the bare except, which prints i and calls sys.exit(1).
PdfStep ==
    /\ pdf.pc = "loop"
    /\ pdf.i < pdf.args.num_samples
    /\ IF pdf.args.steps < 2
       THEN /\ pdf' = [pc |-> "raised", args |-> pdf.args, i |-> pdf.i,
                       ts_idx |-> pdf.ts_idx, p |-> None, raw_p |-> None,
                       branch |-> None, exc |-> "IndexError"]
            /\ UNCHANGED np_random
       ELSE \E raw \in {StepRawP(pdf)}, p \in {StepMass(pdf)}, s \in {RngAdvance(np_random)} :
            \E c \in {choice(p, pdf.args.steps, RngUniform(s))} :
               IF c.outcome = "raise"
               THEN /\ pdf' = [pc |-> "exit", args |-> pdf.args, i |-> pdf.i,
                               ts_idx |-> pdf.ts_idx, p |-> p, raw_p |-> raw,
                               branch |-> StepBranch(pdf), status |-> 1]
                    /\ UNCHANGED np_random
               ELSE /\ pdf' = [pdf EXCEPT !.ts_idx[pdf.i] = c.value, !.i = pdf.i + 1,
                                          !.p = p, !.raw_p = raw,
                                          !.branch = StepBranch(pdf)]
                    /\ np_random' = s
    /\ UNCHANGED <<pdf_ret, other_draws>>

\* lines 86-87
PdfReturn ==
    /\ pdf.pc = "loop"
    /\ pdf.i = pdf.args.num_samples
    /\ LET grid == possible_g(pdf.args.max_g, pdf.args.steps)
       IN  pdf_ret' = Append(pdf_ret,
                [args |-> pdf.args,
                 Y |-> [i \in 0..(pdf.args.num_samples - 1) |-> grid[pdf.ts_idx[i]]]])
    /\ pdf' = PdfIdle
    /\ UNCHANGED <<np_random, other_draws>>

\* any other code of the process drawing from np.random between two calls
OtherDraw ==
    /\ pdf.pc = "idle"
    /\ Len(pdf_ret) = 1
    /\ other_draws < MaxOtherDraws
    /\ np_random' = RngAdvance(np_random)
    /\ other_draws' = other_draws + 1
    /\ UNCHANGED <<pdf, pdf_ret>>

-----------------------------------------------------------------------------
(* simulations/timeseries/fft.get_ts_fft *)

\* rng.standard_normal(): a float of either sign, increasing in the uniform
\* variate, quantised to the integers -2, -1, 1, 2 (a draw is never exactly 0)
RngNormal(s) ==
    LET v == ((4 * s) \div RngMod) - 2
    IN  Num(IF v >= 0 THEN v + 1 ELSE v)

\* np.random.default_rng(seed).  An integer seed makes a new generator whose
\* state is a function of the seed alone; None makes a new generator from
\* fresh entropy; a Generator is handed back as it is.
SeedState(n) == (7 * n + 1) % RngMod

\* a mutated default_rng: the seed is dropped and the generator the caller
\* holds is drawn from
default_rng_shared(seed, held, entropy) == held

default_rng(seed, held, entropy) ==
    IF seed.kind = "int" THEN SeedState(seed.value)
    ELSE IF seed.kind = "generator" THEN held
    ELSE entropy

RECURSIVE RngAfter(_, _)
RngAfter(s, n) == IF n = 0 THEN s ELSE RngAfter(RngAdvance(s), n - 1)

\* complex numbers, as pairs of floats
CAdd(a, b) == <<FAdd(a[1], b[1]), FAdd(a[2], b[2])>>
CMul(a, b) ==
    <<FSub(FMul(a[1], b[1]), FMul(a[2], b[2])), FAdd(FMul(a[1], b[2]), FMul(a[2], b[1]))>>
CReal(x) == <<x, Zero>>
CScale(a, x) == <<FMul(a[1], x), FMul(a[2], x)>>
CDivReal(a, x) == <<FDiv(a[1], x), FDiv(a[2], x)>>
CAbs2(a) == FAdd(FMul(a[1], a[1]), FMul(a[2], a[2]))

RECURSIVE CSum(_)
CSum(s) == IF s = <<>> THEN <<Zero, Zero>> ELSE CAdd(Head(s), CSum(Tail(s)))

\* exp(sign * 2 pi i m / n) for n in {1, 2, 4}: a power of i
Twiddle(sign, m, n) ==
    LET q == ((4 \div n) * m * sign) % 4
    IN  IF q = 0 THEN <<One, Zero>>
        ELSE IF q = 1 THEN <<Zero, One>>
        ELSE IF q = 2 THEN <<Neg(One), Zero>>
        ELSE <<Zero, Neg(One)>>

\* np.fft.fft and np.fft.ifft of a sequence of complex numbers (index k at k+1)
Fft(x) ==
    LET n == Len(x)
    IN  [k \in 1..n |-> CSum([j \in 1..n |-> CMul(x[j], Twiddle(-1, (k - 1) * (j - 1), n))])]

Ifft(x) ==
    LET n == Len(x)
    IN  [k \in 1..n |->
            CDivReal(CSum([j \in 1..n |-> CMul(x[j], Twiddle(1, (k - 1) * (j - 1), n))]),
                     Num(n))]

\* lines 28-29: np.linspace(0, n-1, n) - n/2, then np.fft.fftshift (n even)
Lags(n) ==
    LET centred == [j \in 1..n |-> (j - 1) - (n \div 2)]
    IN  [j \in 1..n |-> centred[((j - 1 + (n \div 2)) % n) + 1]]

\* scint_acf(lag, t, pow) = exp(-|lag/t|^pow) at pow = 2 is q^(lag^2), with
\* q = exp(-1/t^2) in [0, 1] standing for the arguments t_d and dt
scint_acf_sq(lag, q) == FPow(q, lag * lag)

\* lines 32-34: the real part of the transform of the model ACF
Spectrum(n, q) ==
    LET a == [j \in 1..n |-> CReal(scint_acf_sq(Lags(n)[j], q))]
        f == Fft(a)
    IN  [k \in 1..n |-> f[k][1]]

\* line 31, from the generator state g0: n real parts, then n imaginary parts
Noise(n, g0) ==
    [j \in 1..n |->
        CDivReal(<<RngNormal(RngAfter(g0, j)), RngNormal(RngAfter(g0, n + j))>>,
                 FSqrt(Num(2)))]

\* line 36: I = |ifft(noise * sqrt(spectrum))|^2
Intensity(noise, spectrum) ==
    Only({[k \in 1..Len(x) |-> CAbs2(x[k])] :
            x \in {Ifft([k \in 1..Len(noise) |-> CScale(noise[k], FSqrt(spectrum[k]))])}})

\* line 37: I / np.mean(I)
UnitMean(I) == Only({[k \in 1..Len(I) |-> FDiv(I[k], m)] : m \in {Mean(I)}})

Synthesize(noise, spectrum) == UnitMean(Intensity(noise, spectrum))

\* get_ts_fft from the generator state default_rng gave: the series and the
\* state the generator is left in
get_ts_fft(a, g0) ==
    [Y |-> Synthesize(Noise(a.num_samples, g0), Spectrum(a.num_samples, a.q)),
     rng |-> RngAfter(g0, 2 * a.num_samples)]

FftLens == {2, 4}

QValues == {Zero, Frac(1, 2), Frac(3, 4), One}

FftArgs == [num_samples : FftLens, q : QValues]

Seeds ==
    {[kind |-> "int", value |-> n] : n \in 0..MaxSeed}
    \cup {[kind |-> "none"], [kind |-> "generator"]}

FftInit ==
    /\ gen \in {SeedState(n) : n \in 0..MaxSeed}
    /\ fft_ret = <<>>

\* a call of get_ts_fft; a second call repeats the arguments of the first
\* with a seed of its own
FftCall ==
    \E a \in FftArgs, seed \in Seeds, entropy \in RngStates :
        /\ Len(fft_ret) < 2
        /\ fft_ret # <<>> => a = fft_ret[1].args
        /\ seed.kind # "none" => entropy = 0
        /\ \E r \in {get_ts_fft(a, default_rng(seed, gen, entropy))} :
               /\ fft_ret' = Append(fft_ret, [args |-> a, seed |-> seed, Y |-> r.Y])
               /\ gen' = IF seed.kind = "generator" THEN r.rng ELSE gen

\* other code drawing from the generator the caller holds
FftOtherDraw ==
    /\ Len(fft_ret) = 1
    /\ other_draws < MaxOtherDraws
    /\ gen' = RngAdvance(gen)
    /\ other_draws' = other_draws + 1
    /\ UNCHANGED fft_ret

-----------------------------------------------------------------------------
(* The calls of diag_stats *)

Samples == {Num(i) : i \in 0..MaxVal}

SeriesOfLen(n) == [1..n -> Samples]

InputSeries == UNION {SeriesOfLen(n) : n \in 1..MaxLen}

\* where the optimizer may land, before the bounds are applied
PoptValues == {Zero, Frac(1, 2), Num(MaxLen + 1)}

FitOracles ==
    {[converged |-> FALSE, popt |-> <<Zero, Zero, Zero>>]}
    \cup {[converged |-> TRUE, popt |-> <<t, a, w>>] :
            t \in PoptValues, a \in {Frac(1, 2), One}, w \in {Zero}}

DtValues == {None, Num(2)}

\* the dt a TimeSeries carries
SeriesDtValues == {Num(3)}

\* the ways the series ts reaches a function
SeriesInputs(s) == {NdArray(s)} \cup {TimeSeries(s, d) : d \in SeriesDtValues}

\* arguments of triangle: halves around the window's edge, and window widths
TriangleXs == {Frac(k, 2) : k \in (-2 * (MaxLen + 1))..(2 * (MaxLen + 1))}

TriangleLs == {Frac(1, 2)} \cup {Num(l) : l \in 1..MaxLen}

FchansValues == {Num(256), Num(1024)}

\* every behaviour makes one call on its series
NoCall == [op |-> "none"]

StatsInit ==
    /\ ts \in InputSeries
    /\ call = NoCall

CallAutocorr ==
    \E rs \in BOOLEAN :
        /\ call = NoCall
        /\ call' = [op |-> "autocorr", remove_spike |-> rs, res |-> autocorr(ts, rs)]
        /\ UNCHANGED ts

\* fit_acf on the autocorrelation of the series
CallFitAcf ==
    \E rs \in BOOLEAN, o \in FitOracles :
        /\ call = NoCall
        /\ Len(ts) >= 3
        /\ call' = [op |-> "fit_acf", remove_spike |-> rs, oracle |-> o,
                    curve_fit |-> FitArgs(autocorr(ts, rs).value, rs),
                    res |-> fit_acf(autocorr(ts, rs).value, rs, o)]
        /\ UNCHANGED ts

CallGetDiagStats ==
    \E x \in SeriesInputs(ts), dt \in DtValues, o \in FitOracles :
        /\ call = NoCall
        /\ call' = [op |-> "get_diag_stats", series |-> x, dt |-> dt, oracle |-> o,
                    res |-> get_diag_stats(x, dt, o)]
        /\ UNCHANGED ts

CallEmptyDiagStats ==
    \E fchans \in FchansValues :
        /\ call = NoCall
        /\ call' = [op |-> "empty_diag_stats", fchans |-> fchans,
                    res |-> empty_diag_stats(fchans)]
        /\ UNCHANGED ts

CallTriangle ==
    \E x \in TriangleXs, L \in TriangleLs :
        /\ call = NoCall
        /\ call' = [op |-> "triangle", x |-> x, L |-> L,
                    res |-> [outcome |-> "return", value |-> triangle(x, L)]]
        /\ UNCHANGED ts

-----------------------------------------------------------------------------
(* simulations/timeseries/dataset_generator: SignalGenerator *)

\* simulations.get_ts_arta(t_d, dt, tchans, p, pow, seed=self.rng): a series of
\* tchans non-negative samples drawn from the generator it is handed
RngSample(s) == Num(s % (MaxVal + 1))

get_ts_arta(a, g0) ==
    [Y |-> [k \in 1..a.num_samples |-> RngSample(RngAfter(g0, k))],
     rng |-> RngAfter(g0, a.num_samples)]

\* seed=self.rng: the generator of the SignalGenerator is handed on
GeneratorSeed == [kind |-> "generator"]

\* a mutated dispatch: an unrecognized method falls back to the default 'arta'
Synthesizer_default_arta(gen_method) ==
    IF gen_method = "fft" THEN "get_ts_fft" ELSE "get_ts_arta"

\* lines 116-132: the synthesizer gen_method selects, or the raise of the
\* else branch
Synthesizer(gen_method) ==
    IF gen_method = "arta" THEN "get_ts_arta"
    ELSE IF gen_method = "fft" THEN "get_ts_fft"
    ELSE "raise ValueError"

\* lines 119-130: the call of the synthesizer on the generator's rng
RunSynthesizer(name, self, a) ==
    LET args == [num_samples |-> self.frame_metadata.tchans, q |-> a.t_d]
        g0 == default_rng(GeneratorSeed, self.rng, 0)
    IN  IF name = "get_ts_arta" THEN get_ts_arta(args, g0) ELSE get_ts_fft(args, g0)

\* lines 136-141: stg.Frame(..., seed=self.rng) and add_noise_from_obs draw the
\* noise of the frame from the generator, one draw per time channel here
FrameNoise(g0, tchans) == RngAfter(g0, tchans)

\* what frame_processing.extract_ts hands back for a frame of tchans time
\* channels: a TimeSeries with the bounds (l, r) of the signal, or IndexError
\* when the bounding algorithm does not bound the signal
ExtractedArrays(tchans) ==
    {[k \in 1..tchans |-> Num(k % 2)], [k \in 1..tchans |-> Num(1 + ((k * k) % 3))]}

ExtractOutcomes(self) ==
    {[outcome |-> "raise", exc |-> "IndexError"]}
    \cup {[outcome |-> "return", ts |-> TimeSeries(x, self.frame_metadata.dt),
           l |-> Num(126), r |-> Num(130)] :
            x \in ExtractedArrays(self.frame_metadata.tchans)}

\* lines 162-169: ts_stats.update({...})
TrialStats(rec, fchans, t_d, l, r) ==
    [std |-> rec.std, min |-> rec.min, ks |-> rec.ks, anderson |-> rec.anderson,
     lag1 |-> rec.lag1, lag2 |-> rec.lag2,
     fit_t_d |-> rec.fit_t_d, fit_A |-> rec.fit_A, fit_W |-> rec.fit_W,
     fchans |-> fchans, t_d |-> t_d, l |-> l, r |-> r,
     SNR |-> Num(25), DriftRate |-> Zero]

\* lines 160-174: the statistics of the series that is left, if any
TrialResult(name, ext, fchans, rng1, a, env) ==
    IF ext.outcome = "raise"
    THEN [outcome |-> "return", synthesizer |-> name,
          ts_stats |-> None, ts |-> None, rng |-> rng1]
    ELSE Only({IF stats.outcome = "raise"
               THEN [outcome |-> "raise", exc |-> stats.exc, synthesizer |-> name,
                     ts_stats |-> None, ts |-> None, rng |-> rng1]
               ELSE [outcome |-> "return", synthesizer |-> name,
                     ts_stats |-> TrialStats(stats.value, fchans, a.t_d, ext.l, ext.r),
                     ts |-> IF a.save_ts THEN ext.ts ELSE None,
                     rng |-> rng1] :
               stats \in {get_diag_stats(ext.ts, None, env.oracle)}})

\* lines 133-158: the injection into a frame and the extraction, on the
\* series y the synthesizer returned
TrialAfterSynthesis(name, y, self, a, env) ==
    IF a.injected
    THEN TrialResult(name, env.extract, Num(256),
                     FrameNoise(y.rng, self.frame_metadata.tchans), a, env)
    ELSE TrialResult(name,
                     [outcome |-> "return", ts |-> NdArray(y.Y), l |-> None, r |-> None],
                     None, y.rng, a, env)

\* a mutated trial: the method is looked at after a first draw from the
\* generator
SingleTrial_draws_first(self, a, env) ==
    Only({IF name = "raise ValueError"
          THEN [outcome |-> "raise", exc |-> "ValueError", synthesizer |-> name,
                ts_stats |-> None, ts |-> None, rng |-> RngAdvance(self.rng)]
          ELSE Only({TrialAfterSynthesis(name, y, self, a, env) :
                        y \in {RunSynthesizer(name, self, a)}}) :
          name \in {Synthesizer(a.gen_method)}})

\* SignalGenerator._single_trial, lines 104-174.  env holds what the trial
\* does not decide: the run of the optimizer and the outcome of extract_ts.
\* The result carries the state the generator is left in.
SingleTrial(self, a, env) ==
    Only({IF name = "raise ValueError"
          THEN [outcome |-> "raise", exc |-> "ValueError", synthesizer |-> name,
                ts_stats |-> None, ts |-> None, rng |-> self.rng]
          ELSE Only({TrialAfterSynthesis(name, y, self, a, env) :
                        y \in {RunSynthesizer(name, self, a)}}) :
          name \in {Synthesizer(a.gen_method)}})

\* the timescales of a call, as the q of scint_acf_sq
DsTdValues == {Zero, Frac(1, 2)}

GenMethods == {"arta", "fft", "markov-pdf"}

MakeDatasetArgs ==
    [t_d : DsTdValues, n : 0..MaxTrials, injected : BOOLEAN, gen_method : GenMethods,
     save_ts : BOOLEAN, file_stem : {None, <<"synthetic">>}, processes : {1, 2}]

\* the runs of the optimizer inside a trial
DsOracles ==
    {[converged |-> FALSE, popt |-> <<Zero, Zero, Zero>>],
     [converged |-> TRUE, popt |-> <<One, One, Zero>>]}

\* what a trial does not decide itself
TrialEnvs(self, a) ==
    [oracle : DsOracles,
     extract : IF a.injected THEN ExtractOutcomes(self)
               ELSE {[outcome |-> "raise", exc |-> "IndexError"]}]

\* a mutated constructor: the seed is dropped and the generator is made from
\* fresh entropy
SignalGenerator_unseeded(dt, df, tchans, seed, entropy) ==
    [rng |-> entropy,
     frame_metadata |-> [dt |-> dt, df |-> df, tchans |-> tchans],
     df |-> None]

\* SignalGenerator.__init__, lines 94-102
SignalGenerator(dt, df, tchans, seed, entropy) ==
    [rng |-> default_rng(seed, 0, entropy),
     frame_metadata |-> [dt |-> dt, df |-> df, tchans |-> tchans],
     df |-> None]

MdIdle == [pc |-> "idle"]

NoFiles == [csv |-> None, tsdump |-> None]

\* the states fresh entropy seeds a generator with
DsEntropy == {0, RngMod \div 2}

DsInit ==
    /\ \E seed \in Seeds \ {GeneratorSeed}, entropy \in DsEntropy :
            /\ seed.kind # "none" => entropy = 0
            /\ sg = SignalGenerator(Num(2), Num(3), 4, seed, entropy)
    /\ md = MdIdle
    /\ files = NoFiles

\* np.full((n, tchans), np.nan)
NaNRows(n, tchans) == [k \in 0..(n - 1) |-> [j \in 1..tchans |-> NaN]]

\* the frame of make_dataset at the branch on processes, lines 196-206
CallFrame(a, self) ==
    [pc |-> IF a.processes = 1 THEN "trials" ELSE "pool",
     args |-> a, idx |-> 0, rows |-> <<>>,
     tsdump |-> IF a.save_ts THEN NaNRows(a.n, self.frame_metadata.tchans) ELSE None,
     tasks |-> <<>>, trial |-> None, exc |-> "none", calls |-> <<a>>]

\* make_dataset up to the branch on processes
MdCall ==
    \E a \in MakeDatasetArgs :
        /\ md.pc = "idle"
        /\ md' = CallFrame(a, sg)
        /\ UNCHANGED <<sg, files>>

\* lines 208-215: what the loop does with the result t of a trial.  An
\* exception of the trial leaves make_dataset; ts.array() of the numpy array
\* a synthesizer returns is an AttributeError.
StepFrame(m, t) ==
    IF t.outcome = "raise"
    THEN [m EXCEPT !.pc = "raised", !.exc = t.exc, !.trial = t]
    ELSE IF m.args.save_ts /\ t.ts # None /\ t.ts.kind = "ndarray"
    THEN [m EXCEPT !.pc = "raised", !.exc = "AttributeError", !.trial = t]
    ELSE [m EXCEPT
            !.idx = m.idx + 1,
            !.trial = t,
            !.tsdump = IF m.args.save_ts /\ t.ts # None
                       THEN [@ EXCEPT ![m.idx] = t.ts.array]
                       ELSE @,
            !.rows = IF t.ts_stats # None THEN Append(@, t.ts_stats) ELSE @]

\* one turn of the loop of lines 207-215, in the environment env
MdTrialWith(env) ==
    \E t \in {SingleTrial(sg, md.args, env)} :
        /\ sg' = [sg EXCEPT !.rng = t.rng]
        /\ md' = StepFrame(md, t)

MdTrial ==
    /\ md.pc = "trials"
    /\ md.idx < md.args.n
    /\ \E env \in TrialEnvs(sg, md.args) : MdTrialWith(env)
    /\ UNCHANGED files

\* a row of stats_df: the statistics of a trial and the column 'real'
StatsRow(ts_stats, tsdump_fn) ==
    [std |-> ts_stats.std, min |-> ts_stats.min, ks |-> ts_stats.ks,
     anderson |-> ts_stats.anderson, lag1 |-> ts_stats.lag1, lag2 |-> ts_stats.lag2,
     fit_t_d |-> ts_stats.fit_t_d, fit_A |-> ts_stats.fit_A, fit_W |-> ts_stats.fit_W,
     fchans |-> ts_stats.fchans, t_d |-> ts_stats.t_d, l |-> ts_stats.l,
     r |-> ts_stats.r, SNR |-> ts_stats.SNR, DriftRate |-> ts_stats.DriftRate,
     real |-> FALSE, tsdump_fn |-> tsdump_fn]

\* lines 236-240 and 250: stats_df, with the column tsdump_fn where it is set
StatsDf(rows, tsdump_fn) == [k \in 1..Len(rows) |-> StatsRow(rows[k], tsdump_fn)]

\* a pandas DataFrame, as the sequence of its rows: an empty frame is not None
DataFrame(rows) == [kind |-> "DataFrame", rows |-> rows]

\* lines 248-250: the path written into the column tsdump_fn, if any
TsdumpFn(a) ==
    IF a.file_stem # None /\ a.save_ts THEN a.file_stem \o <<"tsdump.npy">> ELSE None

\* a mutated end of make_dataset: self.df is replaced by the table of the call
NewDf_replace(self, m) == DataFrame(StatsDf(m.rows, TsdumpFn(m.args)))

\* lines 242-250: self.df after the call.  stats_df becomes self.df itself
\* when self.df was None, so the column tsdump_fn added at line 250 shows in
\* self.df too; pd.concat builds a new frame, which does not get the column.
NewDf(self, m) ==
    IF self.df = None
    THEN DataFrame(StatsDf(m.rows, TsdumpFn(m.args)))
    ELSE DataFrame(self.df.rows \o StatsDf(m.rows, None))

\* the end of make_dataset, lines 236-253
MdTable ==
    /\ md.pc = "trials"
    /\ md.idx = md.args.n
    /\ sg' = [sg EXCEPT !.df = NewDf(sg, md)]
    /\ files' = IF md.args.file_stem = None THEN files
                ELSE [csv |-> StatsDf(md.rows, TsdumpFn(md.args)),
                      tsdump |-> IF md.args.save_ts THEN md.tsdump ELSE files.tsdump]
    /\ md' = [md EXCEPT !.pc = "returned"]

\* a task of the pool: the tuple zip yields, whose first element is self
PoolTask(self, a) == [generator |-> self.rng, args |-> a]

\* lines 217-221: pool.starmap takes list() of an iterable that has no
\* __len__.  zip over itertools.repeat never ends, so the list grows by one
\* task tuple after the other.
MdPoolMaterialize ==
    /\ md.pc = "pool"
    /\ Len(md.tasks) < MaxTasks
    /\ md' = [md EXCEPT !.tasks = Append(@, PoolTask(sg, md.args))]
    /\ UNCHANGED <<sg, files>>

\* the memory is used up: list() raises MemoryError, or the system ends the
\* process
MdPoolExhaust ==
    /\ md.pc = "pool"
    /\ Len(md.tasks) = MaxTasks
    /\ \/ md' = [md EXCEPT !.pc = "raised", !.exc = "MemoryError"]
       \/ md' = [md EXCEPT !.pc = "killed"]
    /\ UNCHANGED <<sg, files>>

\* two SignalGenerators built with the same integer seed and frame metadata,
\* each in a process with entropy of its own
SeqInit ==
    /\ \E seed \in {x \in Seeds : x.kind = "int"}, entropy \in DsEntropy, entropy2 \in DsEntropy :
            /\ sg = SignalGenerator(Num(2), Num(3), 4, seed, entropy)
            /\ twin = [sg |-> SignalGenerator(Num(2), Num(3), 4, seed, entropy2),
                       md |-> MdIdle]
    /\ md = MdIdle
    /\ files = NoFiles

\* the trials the calls asked for
RECURSIVE TrialsOf(_)
TrialsOf(calls) ==
    IF calls = <<>> THEN 0 ELSE calls[1].n + TrialsOf(Tail(calls))

\* one more make_dataset call, with processes == 1, on both generators.  To
\* bound the model the calls ask for MaxTrials trials in all, at one
\* timescale, and a later call keeps the injected, save_ts and file_stem of
\* the first.
SeqCall ==
    \E a \in MakeDatasetArgs :
        /\ a.processes = 1
        /\ a.t_d = Frac(1, 2)
        /\ md.pc \in {"idle", "returned"}
        /\ \E calls \in {IF md.pc = "idle" THEN <<>> ELSE md.calls} :
            /\ Len(calls) < MaxCalls
            /\ TrialsOf(calls) + a.n <= MaxTrials
            /\ calls # <<>> => /\ a.save_ts = calls[1].save_ts
                               /\ a.file_stem = calls[1].file_stem
                               /\ a.injected = calls[1].injected
            /\ md' = [CallFrame(a, sg) EXCEPT !.calls = calls \o <<a>>]
            /\ twin' = [twin EXCEPT
                            !.md = [CallFrame(a, twin.sg) EXCEPT !.calls = calls \o <<a>>]]
        /\ UNCHANGED <<sg, files>>

\* the same turn of the loop on the second generator.  What a trial does not
\* decide itself (the run of the optimizer, the outcome of extract_ts) is a
\* function of the series, so of the generator's state: on equal states the
\* second generator meets the environment env of the first.
TwinTrial(tw, env) ==
    IF tw.md.pc # "trials" \/ tw.md.idx >= tw.md.args.n
    THEN {tw}
    ELSE {Only({[sg |-> [tw.sg EXCEPT !.rng = t.rng], md |-> StepFrame(tw.md, t)] :
                    t \in {SingleTrial(tw.sg, tw.md.args, env2)}}) :
            env2 \in {e \in TrialEnvs(tw.sg, tw.md.args) : tw.sg.rng = sg.rng => e = env}}

SeqTrial ==
    /\ md.pc = "trials"
    /\ md.idx < md.args.n
    /\ \E env \in TrialEnvs(sg, md.args) :
            /\ MdTrialWith(env)
            /\ twin' \in TwinTrial(twin, env)
    /\ UNCHANGED files

\* the end of the call on the second generator
TwinTable(tw) ==
    IF tw.md.pc # "trials" \/ tw.md.idx # tw.md.args.n
    THEN tw
    ELSE [sg |-> [tw.sg EXCEPT !.df = NewDf(tw.sg, tw.md)],
          md |-> [tw.md EXCEPT !.pc = "returned"]]

SeqTable ==
    /\ MdTable
    /\ twin' = TwinTable(twin)

-----------------------------------------------------------------------------
(* Properties of diag_stats, checked under Spec *)

Returned(c) == c.res.outcome = "return"

Raised(c, e) == c.res.outcome = "raise" /\ c.res.exc = e

HasNonFinite(a) == \E i \in 1..Len(a) : ~IsFinite(a[i])

\* the (possibly spike-corrected) pre-normalization ac[0] exists and is zero
DegenerateCall ==
    /\ call.op = "autocorr"
    /\ Len(ts) >= 2
    /\ PreNormAcf(ts, call.remove_spike)[1] = Zero

NonDegenerateCall ==
    /\ call.op = "autocorr"
    /\ Len(ts) >= 2
    /\ PreNormAcf(ts, call.remove_spike)[1] # Zero

\* C1: autocorr on a series whose pre-normalization ac[0] is zero fails with
\* DegenerateInputError and never returns an array holding NaN or Inf.
C1_DegenerateRaises ==
    DegenerateCall =>
        /\ Raised(call, "DegenerateInputError")
        /\ ~(Returned(call) /\ HasNonFinite(call.res.value))

\* C3: for every series whose (possibly spike-corrected) pre-normalization
\* ac[0] is non-zero, and for both values of remove_spike, autocorr returns an
\* array as long as the series whose first element is exactly 1.
C3_UnitLagZero ==
    NonDegenerateCall =>
        /\ Returned(call)
        /\ Len(call.res.value) = Len(ts)
        /\ call.res.value[1] = One

\* a spike-corrected call in which the correction changed ac[0]
C3_Witness ==
    /\ NonDegenerateCall
    /\ call.remove_spike
    /\ RawAcf(ts)[1] # RawAcf(ts)[2]
    /\ Returned(call)
    /\ call.res.value[1] = One

\* the optimizer was run by fit_acf and did not converge
FitDidNotConverge ==
    /\ call.op = "fit_acf"
    /\ ~call.oracle.converged
    /\ IsFiniteSeq(FitArgs(autocorr(ts, call.remove_spike).value, call.remove_spike).ydata)

\* C8 as stated: when the optimizer fails to converge, fit_acf itself returns
\* (NaN, NaN, NaN) in both modes and raises nothing.
C8_ReturnsNaNTriple ==
    FitDidNotConverge =>
        /\ Returned(call)
        /\ call.res.value = <<NaN, NaN, NaN>>

\* C8 as amended: when the optimizer fails to converge, fit_acf raises
\* RuntimeError to its caller, in the full-fit and in the spike-removed mode,
\* and returns no value.
C8_RaisesRuntimeError ==
    FitDidNotConverge => Raised(call, "RuntimeError")

C8_Witness ==
    /\ FitDidNotConverge
    /\ call.remove_spike
    /\ Raised(call, "RuntimeError")

\* the fit inside get_diag_stats was run and failed to converge
DiagFitDidNotConverge ==
    /\ call.op = "get_diag_stats"
    /\ Len(ts) >= 3
    /\ Raised([res |-> fit_acf(autocorr(ts, FALSE).value, FALSE, call.oracle)],
              "RuntimeError")

SeriesFields == {"std", "min", "ks", "anderson", "lag1", "lag2"}

\* the series-derived part of a record
SeriesPart(rec) == [f \in SeriesFields |-> rec[f]]

\* a run of the optimizer that converges
GoodFit == [converged |-> TRUE, popt |-> <<One, One, Zero>>]

\* C9: when the fit fails to converge inside get_diag_stats, the call still
\* returns a record: std, min, ks, anderson, lag1 and lag2 are the values
\* computed from the series as on the success path, fit_t_d, fit_A and fit_W
\* are NaN (with and without dt), and no exception escapes.
C9_NaNFitRecord ==
    DiagFitDidNotConverge =>
        /\ Returned(call)
        /\ LET rec == call.res.value
           IN  /\ rec.std = np_std(ts)
               /\ rec.min = np_min(ts)
               /\ rec.ks = kstest_expon(ts)
               /\ rec.anderson = anderson_expon(ts)
               /\ rec.lag1 = autocorr(ts, FALSE).value[2]
               /\ rec.lag2 = autocorr(ts, FALSE).value[3]
               /\ SeriesPart(rec) = SeriesPart(get_diag_stats(call.series, call.dt, GoodFit).value)
               /\ rec.fit_t_d = NaN /\ rec.fit_A = NaN /\ rec.fit_W = NaN

\* a failed fit with dt supplied, on a series with a non-trivial std
C9_Witness ==
    /\ DiagFitDidNotConverge
    /\ call.dt # None
    /\ Returned(call)
    /\ call.res.value.fit_t_d = NaN
    /\ call.res.value.std # Zero

DiagSchema ==
    {"std", "min", "ks", "anderson", "lag1", "lag2",
     "fit_t_d", "fit_A", "fit_W", "fchans", "l", "r"}

\* C10: the record get_diag_stats returns and the sentinel empty_diag_stats
\* returns have the same field set, the fixed schema of twelve fields, and in
\* the sentinel every field is null except fchans, which is the argument.
C10_SameFieldSet ==
    /\ (call.op = "get_diag_stats" /\ Returned(call)) =>
            DOMAIN call.res.value = DiagSchema
    /\ (call.op = "empty_diag_stats") =>
            /\ Returned(call)
            /\ DOMAIN call.res.value = DiagSchema
            /\ call.res.value.fchans = call.fchans
            /\ \A f \in DiagSchema \ {"fchans"} : call.res.value[f] = None

\* the fit inside get_diag_stats, as fit_acf returns it
FitOf(c) == fit_acf(autocorr(ts, FALSE).value, FALSE, c.oracle)

\* get_diag_stats ran the fit and the optimizer converged
DiagFitConverged ==
    /\ call.op = "get_diag_stats"
    /\ Len(ts) >= 3
    /\ FitOf(call).outcome = "return"

\* the record's fit fields are popt with the timescale scaled by dt
ScaledBy(rec, popt, dt) ==
    /\ rec.fit_t_d = (IF dt # None THEN FMul(popt[1], dt) ELSE popt[1])
    /\ rec.fit_A = popt[2]
    /\ rec.fit_W = popt[3]

\* C13 as stated: in the record of get_diag_stats, fit_t_d is the fitted
\* timescale times the argument dt when dt is supplied and the unscaled
\* timescale when dt is None; fit_A and fit_W are never scaled.
C13_ScaledByArgument ==
    DiagFitConverged =>
        /\ Returned(call)
        /\ ScaledBy(call.res.value, FitOf(call).value, call.dt)

\* C13 as amended: fit_t_d is the fitted timescale times the effective dt,
\* which is the dt of the series when the input is a TimeSeries and the
\* argument dt otherwise, and is unscaled when the effective dt is None; fit_A
\* and fit_W are never scaled, and fit_acf returns the optimizer's parameters
\* in samples, with no dt applied.
C13_ScaledByEffectiveDt ==
    DiagFitConverged =>
        /\ Returned(call)
        /\ ScaledBy(call.res.value, FitOf(call).value,
                    IF call.series.kind = "TimeSeries" THEN call.series.dt ELSE call.dt)
        /\ FitOf(call).value =
                <<FClip(call.oracle.popt[1], Zero, Num(Len(ts))),
                  FClip(call.oracle.popt[2], Zero, One),
                  FClip(call.oracle.popt[3], Zero, One)>>

\* a TimeSeries whose dt differs from the argument, with a non-zero timescale
C13_Witness ==
    /\ DiagFitConverged
    /\ call.series.kind = "TimeSeries"
    /\ call.dt # None
    /\ call.dt # call.series.dt
    /\ Returned(call)
    /\ FitOf(call).value[1] # Zero
    /\ call.res.value.fit_t_d = FMul(FitOf(call).value[1], call.series.dt)
    /\ call.res.value.fit_A = Frac(1, 2)

SpikeFit == call.op = "fit_acf" /\ call.remove_spike

\* C14: in spike-removed mode fit_acf fits only t_d, with bounds [0, N],
\* against the lags 1..N-1 and the values acf[1..N-1], with A fixed to 1 and
\* W fixed to 0; the returned triple is (fitted t_d, 1, 0).
C14_SpikeRemovedFit ==
    SpikeFit =>
        LET acf == autocorr(ts, TRUE).value
            N == Len(ts)
            a == call.curve_fit
        IN  /\ a.xdata = [i \in 1..(N - 1) |-> Num(i)]
            /\ a.ydata = [i \in 1..(N - 1) |-> acf[i + 1]]
            /\ a.lo = <<Zero>>
            /\ a.hi = <<Num(N)>>
            /\ a.A = One
            /\ a.W = Zero
            /\ Returned(call) =>
                    /\ Len(call.res.value) = 3
                    /\ call.res.value[1] = FClip(call.oracle.popt[1], Zero, Num(N))
                    /\ FLeq(Zero, call.res.value[1])
                    /\ FLeq(call.res.value[1], Num(N))
                    /\ call.res.value[2] = One
                    /\ call.res.value[3] = Zero

\* a spike-removed fit whose optimizer ran into the upper bound N and whose
\* amplitude would have been fitted below 1 in the full mode
C14_Witness ==
    /\ SpikeFit
    /\ Returned(call)
    /\ call.oracle.popt[1] = Num(MaxLen + 1)
    /\ call.oracle.popt[2] # One
    /\ call.res.value = <<Num(Len(ts)), One, Zero>>

TriangleCall == call.op = "triangle"

\* C15: for every L > 0, triangle(0, L) = 1, triangle(x, L) = 0 for |x| > L,
\* and triangle(x, L) = 1 - |x|/L for |x| <= L, which is 0 at |x| = L and
\* never negative.
C15_Triangle ==
    TriangleCall =>
        LET x == call.x
            L == call.L
            y == call.res.value
        IN  /\ x = Zero => y = One
            /\ FLess(L, FAbs(x)) => y = Zero
            /\ FLeq(FAbs(x), L) =>
                    /\ FMul(y, L) = FSub(L, FAbs(x))
                    /\ FLeq(Zero, y)
                    /\ (FAbs(x) = L => y = Zero)

\* a negative x strictly inside the window
C15_Witness ==
    /\ TriangleCall
    /\ FLess(call.x, Zero)
    /\ FLess(FAbs(call.x), call.L)
    /\ FLess(Zero, call.res.value)
    /\ FLess(call.res.value, One)

\* C16: with remove_spike, autocorr overwrites the raw ac[0] with the raw
\* ac[1] before normalizing, so that the result is raw[k] / raw[1] for every
\* lag k >= 1 and result[0] = result[1] = 1; without remove_spike the result
\* is raw[k] / raw[0] for every k.
C16_SpikeBeforeNormalize ==
    (call.op = "autocorr" /\ Len(ts) >= 2) =>
        /\ Returned(call)
        /\ LET raw == RawAcf(ts)
               res == call.res.value
           IN  IF call.remove_spike
               THEN /\ \A k \in 2..Len(ts) : res[k] = FDiv(raw[k], raw[2])
                    /\ res[1] = One
                    /\ res[2] = One
               ELSE \A k \in 1..Len(ts) : res[k] = FDiv(raw[k], raw[1])

-----------------------------------------------------------------------------
(* Properties of gen_pdf, checked under SpecPdf *)

\* the mass vector is all-zero or holds a non-finite value
CollapsedMass(p, steps) ==
    \/ \E k \in 0..(steps - 1) : ~IsFinite(p[k])
    \/ \A k \in 0..(steps - 1) : p[k] = Zero

\* a step has computed its mass vector
MassComputed == pdf.pc \in {"loop", "exit", "raised"} /\ pdf.p # None

OnGrid(y, a) == \E k \in 0..(a.steps - 1) : y = FDiv(FMul(a.max_g, Num(k)), Num(a.steps))

\* C4: every value of a sequence get_ts_pdf returns is a point of the gain
\* grid and lies in [0, max_g), the first sample and every later one.
C4_ValuesOnGrid ==
    \A c \in 1..Len(pdf_ret) :
        LET r == pdf_ret[c]
        IN  \A i \in 0..(r.args.num_samples - 1) :
                /\ OnGrid(r.Y[i], r.args)
                /\ FLeq(Zero, r.Y[i])
                /\ FLess(r.Y[i], r.args.max_g)

\* a returned series of more than one sample that leaves the grid's origin
C4_Witness ==
    \E c \in 1..Len(pdf_ret) :
        LET r == pdf_ret[c]
        IN  /\ r.args.num_samples >= 2
            /\ r.args.steps >= 2
            /\ r.Y[0] # Zero
            /\ r.Y[r.args.num_samples - 1] = FDiv(FMul(r.args.max_g, Num(r.args.steps - 1)),
                                                  Num(r.args.steps))

\* C5: the output of get_ts_pdf is a function of its arguments (and of the
\* seed the caller injects): two calls with the same arguments return the same
\* sequence, whatever other random draws happened in the process in between.
C5_SameArgsSameSeries ==
    (Len(pdf_ret) = 2 /\ pdf_ret[1].args = pdf_ret[2].args) => pdf_ret[1].Y = pdf_ret[2].Y

\* a step of the chain has evaluated bpdf
BpdfEvaluated == pdf.pc \in {"loop", "exit"} /\ pdf.raw_p # None

\* the sample the last evaluation of bpdf was conditioned on: the step that
\* drew has moved i on, the step that failed has not
PrevIndex == IF pdf.pc = "exit" THEN pdf.ts_idx[pdf.i - 1] ELSE pdf.ts_idx[pdf.i - 2]

GridOf(a) == [k \in 0..(a.steps - 1) |-> FDiv(FMul(a.max_g, Num(k)), Num(a.steps))]

PrimaryForm(a, g1) == [k \in 0..(a.steps - 1) |-> bpdf_primary(g1, GridOf(a)[k], a.ac)]

AsymptoticForm(a, g1) == [k \in 0..(a.steps - 1) |-> bpdf_asymptotic(g1, GridOf(a)[k], a.ac)]

\* C17: bpdf takes one branch per evaluation: if any element of the primary
\* Bessel form of the array is non-finite (infinite or NaN) it returns the
\* asymptotic form for every element; the returned array never mixes the two
\* forms and never holds a non-finite element that comes from the primary form.
C17_OneBranchNeverNonFinitePrimary ==
    BpdfEvaluated =>
        LET g1 == GridOf(pdf.args)[PrevIndex]
            P == PrimaryForm(pdf.args, g1)
            A == AsymptoticForm(pdf.args, g1)
        IN  /\ pdf.branch \in {"primary", "asymptotic"}
            /\ pdf.branch = "primary" => pdf.raw_p = P
            /\ pdf.branch = "asymptotic" => pdf.raw_p = A
            /\ (\E k \in 0..(pdf.args.steps - 1) : ~IsFinite(P[k])) =>
                    pdf.branch = "asymptotic"
            /\ pdf.branch = "primary" =>
                    \A k \in 0..(pdf.args.steps - 1) : IsFinite(pdf.raw_p[k])

\* a step of the chain has drawn sample i-1
StepDrawn == pdf.pc = "loop" /\ pdf.i >= 2

\* C18: every sample i >= 1 of get_ts_pdf is drawn from the categorical
\* distribution got by normalizing bpdf(g[i-1], grid, ac_arr[1]) over the
\* grid: it depends on the previous sample alone, at lag index 1, and a grid
\* point whose normalized mass is zero is never drawn.
C18_MarkovStep ==
    StepDrawn =>
        LET a == pdf.args
            j == pdf.i - 1
            B == bpdf(GridOf(a)[pdf.ts_idx[j - 1]], GridOf(a), a.ac)
            total == SumFun(B, a.steps)
        IN  /\ pdf.p = [k \in 0..(a.steps - 1) |-> FDiv(B[k], total)]
            /\ pdf.ts_idx[j] \in 0..(a.steps - 1)
            /\ FLess(Zero, pdf.p[pdf.ts_idx[j]])

\* the third sample, drawn after a second sample that differs from the first,
\* from a mass vector that holds a zero
C18_Witness ==
    /\ StepDrawn
    /\ pdf.i = 3
    /\ pdf.ts_idx[1] # pdf.ts_idx[0]
    /\ \E k \in 0..(pdf.args.steps - 1) : pdf.p[k] = Zero
    /\ FLess(Zero, pdf.p[pdf.ts_idx[2]])

-----------------------------------------------------------------------------
(* Properties of get_ts_fft, checked under SpecFft *)

IntSeeded(c) == c.seed.kind = "int"

\* C6: get_ts_fft is exactly reproducible: two calls with the same arguments
\* and the same integer seed return identical series, whatever was drawn from
\* other generators in between.
C6_SameSeedSameSeries ==
    (/\ Len(fft_ret) = 2
     /\ IntSeeded(fft_ret[1]) /\ IntSeeded(fft_ret[2])
     /\ fft_ret[1].seed = fft_ret[2].seed
     /\ fft_ret[1].args = fft_ret[2].args) => fft_ret[1].Y = fft_ret[2].Y

\* two calls with one integer seed and a draw in between, on a series that is
\* not constant
C6_Witness ==
    /\ Len(fft_ret) = 2
    /\ IntSeeded(fft_ret[1])
    /\ fft_ret[1].seed = fft_ret[2].seed
    /\ other_draws = 1
    /\ IsFiniteSeq(fft_ret[1].Y)
    /\ fft_ret[1].Y[1] # fft_ret[1].Y[2]
    /\ fft_ret[1].Y = fft_ret[2].Y

HasNegative(a) == \E k \in 1..Len(a) : FLess(a[k], Zero)

\* C7: every negative element of the target power spectrum is clamped to zero
\* before the square root, so a negative spectrum element never produces a
\* NaN (or otherwise invalid) sample in the synthesized series.
C7_NegativeClamped ==
    \A c \in 1..Len(fft_ret) :
        HasNegative(Spectrum(fft_ret[c].args.num_samples, fft_ret[c].args.q)) =>
            IsFiniteSeq(fft_ret[c].Y)

-----------------------------------------------------------------------------
(* Properties of SignalGenerator.make_dataset, checked under SpecDs *)

Called == md.pc # "idle"

\* C11: with processes > 1 every task of the pool gets a sub-seed derived for
\* it instead of the one shared generator, so that no two trials are made to
\* consume the same random stream and the results do not depend on the
\* scheduling or on the number of workers.
C11_IndependentSubSeeds ==
    (Called /\ md.args.processes > 1) =>
        \A i, j \in 1..Len(md.tasks) :
            i # j => md.tasks[i].generator # md.tasks[j].generator

\* a trial of the call has run (to its return or to its raise)
TrialRan == Called /\ md.trial # None

\* C12 as stated: the synthesis method is one of {spectral, markov-pdf}: the
\* spectral method ('fft') selects get_ts_fft, the Markov-PDF method selects
\* get_ts_pdf, and any other value makes the trial fail with
\* InvalidParameterError; none is mapped silently to a default.
C12_SpectralOrMarkovPdf ==
    TrialRan =>
        LET m == md.args.gen_method
            t == md.trial
        IN  /\ m = "fft" => t.synthesizer = "get_ts_fft"
            /\ m = "markov-pdf" => t.synthesizer = "get_ts_pdf"
            /\ m \notin {"fft", "markov-pdf"} =>
                    (t.outcome = "raise" /\ t.exc = "InvalidParameterError")

\* C12 as amended: the synthesis method is one of {'arta', 'fft'}: 'fft'
\* selects the spectral synthesizer get_ts_fft, 'arta' selects get_ts_arta,
\* and any other value, the Markov-PDF method included, makes the trial and
\* the call fail with ValueError, with no series, no statistics and no draw
\* from the generator; none is mapped silently to a default.
C12_ArtaOrFft ==
    TrialRan =>
        LET m == md.args.gen_method
            t == md.trial
        IN  /\ m = "fft" => t.synthesizer = "get_ts_fft"
            /\ m = "arta" => t.synthesizer = "get_ts_arta"
            /\ m \notin {"arta", "fft"} =>
                    /\ t.outcome = "raise"
                    /\ t.exc = "ValueError"
                    /\ t.ts = None
                    /\ t.ts_stats = None
                    /\ md.pc = "raised"
                    /\ md.exc = "ValueError"
                    /\ md.rows = <<>>
                    /\ md.idx = 0

\* the first trial of a call that names the Markov-PDF method
C12_Witness ==
    /\ TrialRan
    /\ md.args.gen_method = "markov-pdf"
    /\ md.args.n = MaxTrials
    /\ md.pc = "raised"
    /\ md.exc = "ValueError"
    /\ md.trial.synthesizer = "raise ValueError"

\* C19: make_dataset with processes > 1 terminates: it runs exactly n trials
\* on the pool, collects n results and reaches the code that builds the
\* statistics table, for every n >= 0.
C19_ParallelRunsNTrials ==
    (Called /\ md.args.processes > 1) =>
        /\ Len(md.tasks) <= md.args.n
        /\ md.pc \notin {"raised", "killed"}

\* the loop over the n trials is over
AfterTrials == md.pc \in {"trials", "returned"} /\ md.idx = md.args.n

\* the row of the statistics table holds the statistics of the series
Describes(row, series) == row.min = np_min(series) /\ row.std = np_std(series)

\* C20: with save_ts, after the n trials the k-th row of the statistics table
\* and the k-th row of tsdump describe the same trial, for every k, also when
\* some trials yield no statistics.
C20_RowsAligned ==
    (AfterTrials /\ md.args.save_ts) =>
        \A k \in 1..Len(md.rows) : Describes(md.rows[k], md.tsdump[k - 1])

-----------------------------------------------------------------------------
(* Properties of a sequence of make_dataset calls, checked under SpecSeq *)

\* the rows of self.df, none before the first call returns
DfRows(self) == IF self.df = None THEN <<>> ELSE self.df.rows

\* the row of the table holds the statistics of the trial, column by column
RowOf(row, ts_stats) == \A stat \in DOMAIN ts_stats : row[stat] = ts_stats[stat]

\* the step is the return of a make_dataset call
CallReturns == md.pc = "trials" /\ md'.pc = "returned"

\* the step is a trial of the loop that did not raise
TrialReturns == md.pc = "trials" /\ md'.pc = "trials" /\ md'.idx = md.idx + 1

\* C21: after any sequence of successful make_dataset calls on one
\* SignalGenerator (processes == 1), self.df holds the rows of every call in
\* call order: a call appends one row per trial whose ts_stats is not None (at
\* most n rows, in trial order), marks each with real == False, and never
\* removes, reorders or changes the rows of earlier calls.
C21_RowsOfEveryCall ==
    [][/\ TrialReturns =>
            md'.rows = IF md'.trial.ts_stats # None
                       THEN Append(md.rows, md'.trial.ts_stats)
                       ELSE md.rows
       /\ CallReturns =>
            /\ sg'.df # None
            /\ Len(md.rows) <= md.args.n
            /\ Len(DfRows(sg')) = Len(DfRows(sg)) + Len(md.rows)
            /\ \A k \in 1..Len(DfRows(sg)) : DfRows(sg')[k] = DfRows(sg)[k]
            /\ \A k \in 1..Len(md.rows) :
                    /\ RowOf(DfRows(sg')[Len(DfRows(sg)) + k], md.rows[k])
                    /\ DfRows(sg')[Len(DfRows(sg)) + k].real = FALSE
       /\ ~CallReturns => sg'.df = sg.df]_vars

\* the last of MaxCalls calls has returned: self.df holds a row of an earlier
\* call before the row of this one
C21_Witness ==
    /\ md.pc = "returned"
    /\ Len(md.calls) = MaxCalls
    /\ Len(md.rows) = 1
    /\ Len(DfRows(sg)) = 2
    /\ DfRows(sg)[1] # DfRows(sg)[2]
    /\ RowOf(DfRows(sg)[2], md.rows[1])

\* the gen_method of the call is none of the two make_dataset knows
Unrecognized(a) == a.gen_method \notin {"arta", "fft"}

\* C22: a make_dataset call (n >= 1, processes == 1) with an unrecognized
\* gen_method raises in its first trial before any random number is drawn,
\* and leaves the generator unchanged: self.df and the state of self.rng are
\* the same as before the call, and no file is written.
C22_UnrecognizedMethodChangesNothing ==
    [][(/\ md' # md
        /\ md'.pc # "idle"
        /\ Unrecognized(md'.args)
        /\ md'.args.n >= 1
        /\ md'.args.processes = 1) =>
            /\ sg'.df = sg.df
            /\ sg'.rng = sg.rng
            /\ files' = files
            /\ \/ md.pc # "trials" /\ md'.pc = "trials" /\ md'.idx = 0
               \/ /\ md.pc = "trials"
                  /\ md'.pc = "raised"
                  /\ md'.exc = "ValueError"
                  /\ md'.idx = 0
                  /\ md'.trial.rng = sg.rng
                  /\ md'.trial.ts = None
                  /\ md'.trial.ts_stats = None]_vars

\* a call with the method 'markov-pdf' has raised on a generator that holds
\* the rows, and next to the file, of an earlier call
C22_Witness ==
    /\ md.pc = "raised"
    /\ md.exc = "ValueError"
    /\ Unrecognized(md.args)
    /\ md.args.n >= 1
    /\ md.args.file_stem # None
    /\ Len(md.calls) = MaxCalls
    /\ Len(DfRows(sg)) >= 1
    /\ files.csv = DfRows(sg)

\* every call made on the generators has gen_method 'fft', injected False
\* and processes == 1
FftCallsOnly(m) ==
    /\ m.pc # "idle"
    /\ \A k \in 1..Len(m.calls) :
            /\ m.calls[k].gen_method = "fft"
            /\ ~m.calls[k].injected
            /\ m.calls[k].processes = 1

\* the series the statistics of a trial describe
SeriesOf(ts_stats) == ts_stats.ks[3]

\* the step is a trial of the loop, to its return or to its raise
TrialStep == md.pc = "trials" /\ md'.pc \in {"trials", "raised"}

\* C23: two SignalGenerators built with the same integer seed and the same
\* (dt, df, tchans), driven by the same sequence of make_dataset calls with
\* gen_method 'fft', injected False and processes == 1, produce identical
\* trial series and identical self.df; within one generator successive trials
\* consume successive, non-overlapping draws of the shared self.rng (each
\* trial draws 2 * tchans normals from the state the trial before it left),
\* so two consecutive trials are not forced to be identical.
C23_SameSeedSameDataset ==
    [][FftCallsOnly(md') =>
          /\ twin'.md = md'
          /\ twin'.sg.df = sg'.df
          /\ twin'.sg.rng = sg'.rng
          /\ TrialStep =>
                /\ sg'.rng = RngAfter(sg.rng, 2 * sg.frame_metadata.tchans)
                /\ md'.trial.ts_stats # None =>
                        SeriesOf(md'.trial.ts_stats)
                            = get_ts_fft([num_samples |-> sg.frame_metadata.tchans,
                                          q |-> md.args.t_d], sg.rng).Y]_vars

\* both generators hold the same two rows of two consecutive 'fft' trials,
\* whose series differ
C23_Witness ==
    /\ md.pc = "returned"
    /\ FftCallsOnly(md)
    /\ Len(DfRows(sg)) = 2
    /\ SeriesOf(DfRows(sg)[1]) # SeriesOf(DfRows(sg)[2])
    /\ twin.sg.df = sg.df
    /\ twin.sg.rng = sg.rng

-----------------------------------------------------------------------------
(* Specifications *)

\* diag_stats: one call on one series
Init ==
    /\ StatsInit
    /\ np_random = 0 /\ pdf = PdfIdle /\ pdf_ret = <<>> /\ other_draws = 0
    /\ gen = 0 /\ fft_ret = <<>>
    /\ sg = None /\ md = MdIdle /\ files = NoFiles /\ twin = None

Next ==
    \/ CallAutocorr /\ UNCHANGED <<pdfVars, fftVars, dsVars>>
    \/ CallFitAcf /\ UNCHANGED <<pdfVars, fftVars, dsVars>>
    \/ CallGetDiagStats /\ UNCHANGED <<pdfVars, fftVars, dsVars>>
    \/ CallEmptyDiagStats /\ UNCHANGED <<pdfVars, fftVars, dsVars>>
    \/ CallTriangle /\ UNCHANGED <<pdfVars, fftVars, dsVars>>

Spec == Init /\ [][Next]_vars

\* gen_pdf: up to two calls of get_ts_pdf in one process
InitPdf ==
    /\ PdfInit
    /\ ts = <<>> /\ call = NoCall
    /\ gen = 0 /\ fft_ret = <<>>
    /\ sg = None /\ md = MdIdle /\ files = NoFiles /\ twin = None

NextPdf ==
    \/ PdfCall /\ UNCHANGED <<statsVars, fftVars, dsVars>>
    \/ PdfDrawFirst /\ UNCHANGED <<statsVars, fftVars, dsVars>>
    \/ PdfStep /\ UNCHANGED <<statsVars, fftVars, dsVars>>
    \/ PdfReturn /\ UNCHANGED <<statsVars, fftVars, dsVars>>
    \/ OtherDraw /\ UNCHANGED <<statsVars, fftVars, dsVars>>

SpecPdf == InitPdf /\ [][NextPdf]_vars

\* fft: up to two calls of get_ts_fft in one process
InitFft ==
    /\ FftInit
    /\ ts = <<>> /\ call = NoCall
    /\ np_random = 0 /\ pdf = PdfIdle /\ pdf_ret = <<>> /\ other_draws = 0
    /\ sg = None /\ md = MdIdle /\ files = NoFiles /\ twin = None

NextFft ==
    \/ FftCall /\ UNCHANGED <<statsVars, pdfVars, dsVars>>
    \/ FftOtherDraw /\ UNCHANGED <<statsVars, np_random, pdf, pdf_ret, dsVars>>

SpecFft == InitFft /\ [][NextFft]_vars

\* dataset: one make_dataset call on a new SignalGenerator
InitDs ==
    /\ DsInit
    /\ twin = None
    /\ ts = <<>> /\ call = NoCall
    /\ np_random = 0 /\ pdf = PdfIdle /\ pdf_ret = <<>> /\ other_draws = 0
    /\ gen = 0 /\ fft_ret = <<>>

NextDs ==
    \/ MdCall /\ UNCHANGED <<statsVars, pdfVars, fftVars, twin>>
    \/ MdTrial /\ UNCHANGED <<statsVars, pdfVars, fftVars, twin>>
    \/ MdTable /\ UNCHANGED <<statsVars, pdfVars, fftVars, twin>>
    \/ MdPoolMaterialize /\ UNCHANGED <<statsVars, pdfVars, fftVars, twin>>
    \/ MdPoolExhaust /\ UNCHANGED <<statsVars, pdfVars, fftVars, twin>>

SpecDs == InitDs /\ [][NextDs]_vars

\* dataset: a sequence of make_dataset calls on two SignalGenerators
InitSeq ==
    /\ SeqInit
    /\ ts = <<>> /\ call = NoCall
    /\ np_random = 0 /\ pdf = PdfIdle /\ pdf_ret = <<>> /\ other_draws = 0
    /\ gen = 0 /\ fft_ret = <<>>

NextSeq ==
    \/ SeqCall /\ UNCHANGED <<statsVars, pdfVars, fftVars>>
    \/ SeqTrial /\ UNCHANGED <<statsVars, pdfVars, fftVars>>
    \/ SeqTable /\ UNCHANGED <<statsVars, pdfVars, fftVars>>

SpecSeq == InitSeq /\ [][NextSeq]_vars

=============================================================================
